---- MODULE Spec2Model ----
(***************************************************************************)
(* Model of cj_resource_monitor.py: the module-level backend set-up, the   *)
(* sampling tick update_stats(self) with get_gpu_usage(self), the meters'  *)
(* set_value, the mini status widget and closeEvent.                       *)
(*                                                                         *)
(* The file defines apply_theme, center_window, toggle_theme,               *)
(* enter_mini_mode, exit_mini_mode, get_gpu_usage, get_system_info,        *)
(* update_stats and closeEvent at module level, as functions of a          *)
(* parameter self (lines 343-586); class MonitorWindow holds __init__ and  *)
(* setup_ui only.  Spec follows the process from the import on.  SpecTick, *)
(* SpecNet and SpecGpu apply update_stats (with get_gpu_usage and          *)
(* get_system_info bound to self) to an object that carries the attributes *)
(* lines 237-269 and 317-341 assign.                                       *)
(*                                                                         *)
(* Python floats are modelled as exact rationals <<num, den>> (den > 0,    *)
(* lowest terms); None is the pair <<0, 0>>.  Strings that the code        *)
(* searches or slices (sensor names, device names) are sequences of        *)
(* one-character strings.  time.time() is an integer number of seconds.    *)
(***************************************************************************)
EXTENDS Integers, Sequences, FiniteSets, TLC

VARIABLES
    pc,             \* where the process is: "import", "load", "computer", "enable",
                    \* "open", "computer_except", "main", "try", "except",
                    \* "running", "exited"
    exit_code,      \* argument of sys.exit, -1 while the process runs
    LHM_AVAILABLE,  \* module global, lines 29-58
    computer,       \* module global, "None" or "Computer"
    opens,          \* number of computer.Open() calls that returned
    closes,         \* number of computer.Close() calls made
    hardware,       \* computer.Hardware: the devices the backend reports
    last_net,       \* self.last_net
    last_time,      \* self.last_time
    meters,         \* the four CircularMeter objects: value and info
    mini_visible,   \* self.mini_widget.isVisible()
    mini_status,    \* what update_status last formatted: int(cpu), int(ram), int(gpu)
    system_info,    \* text of the system_info label
    window_visible, \* whether the main window is shown
    tick,           \* the locals of the latest update_stats call
    LIBRE_DLL,      \* module global: 0 for None, else the dll candidate that exists
    enabled,        \* the Is...Enabled properties of computer set so far
    attrs,          \* the instance attributes of the MonitorWindow object
    stmt,           \* the statement of main's try block to run next, 0 outside it
    error           \* the exception that ended main: "none" while there is none

vars == <<pc, exit_code, LHM_AVAILABLE, computer, opens, closes, hardware,
          last_net, last_time, meters, mini_visible, mini_status, system_info,
          window_visible, tick,
          LIBRE_DLL, enabled, attrs, stmt, error>>

\* the variables only the start of the process assigns
startup == <<LIBRE_DLL, enabled, attrs, stmt, error>>

----------------------------------------------------------------------------
(* Bounds of the model *)

\* time.time() ranges over 0..MaxTime
MaxTime == 3
\* a GPU device carries at most MaxSensors sensors
MaxSensors == 2

----------------------------------------------------------------------------
(* Float arithmetic, as exact rationals *)

None == <<0, 0>>

Abs(n) == IF n < 0 THEN -n ELSE n

RECURSIVE GCD(_, _)
GCD(a, b) == IF b = 0 THEN a ELSE GCD(b, a % b)

\* the float n/d
Q(n, d) ==
    LET s == IF d < 0 THEN -1 ELSE 1
        g == GCD(Abs(n), Abs(d))
    IN  <<(s * n) \div g, (s * d) \div g>>

Flt(n) == <<n, 1>>

QAdd(a, b) == Q(a[1] * b[2] + b[1] * a[2], a[2] * b[2])
QMul(a, b) == Q(a[1] * b[1], a[2] * b[2])
QDiv(a, b) == Q(a[1] * b[2], a[2] * b[1])
QLt(a, b)  == a[1] * b[2] < b[1] * a[2]
QLe(a, b)  == a[1] * b[2] <= b[1] * a[2]

\* Python's min(a, b) and max(a, b): the first argument unless the second is strictly beyond it
QMin(a, b) == IF QLt(b, a) THEN b ELSE a
QMax(a, b) == IF QLt(a, b) THEN b ELSE a

\* Python's int(x): truncation toward zero
Trunc(q) == IF q[1] >= 0 THEN q[1] \div q[2] ELSE -((-q[1]) \div q[2])

Zero    == Flt(0)
Hundred == Flt(100)

----------------------------------------------------------------------------
(* Strings as character sequences *)

UpperChars == <<"A", "B", "C", "D", "E", "F", "G", "H", "I", "J", "K", "L", "M",
                "N", "O", "P", "Q", "R", "S", "T", "U", "V", "W", "X", "Y", "Z">>
LowerChars == <<"a", "b", "c", "d", "e", "f", "g", "h", "i", "j", "k", "l", "m",
                "n", "o", "p", "q", "r", "s", "t", "u", "v", "w", "x", "y", "z">>

\* str.lower()
Lower(str) ==
    [i \in 1..Len(str) |->
        IF \E k \in 1..Len(UpperChars) : UpperChars[k] = str[i]
        THEN LowerChars[CHOOSE k \in 1..Len(UpperChars) : UpperChars[k] = str[i]]
        ELSE str[i]]

\* keyword in str
Contains(str, keyword) ==
    \E i \in 1..(Len(str) - Len(keyword) + 1) :
        SubSeq(str, i, i + Len(keyword) - 1) = keyword

\* ['gpu', 'core', 'load', '3d', 'graphics'], line 472
Keywords == {<<"g", "p", "u">>, <<"c", "o", "r", "e">>, <<"l", "o", "a", "d">>,
             <<"3", "d">>, <<"g", "r", "a", "p", "h", "i", "c", "s">>}

\* any(keyword in sensor_name.lower() for keyword in [...]), lines 471-472
NameMatches(sensor_name) == \E keyword \in Keywords : Contains(Lower(sensor_name), keyword)

IntegratedGraphics == <<"I", "n", "t", "e", "g", "r", "a", "t", "e", "d", " ",
                        "G", "r", "a", "p", "h", "i", "c", "s">>

\* gpu_info[:30] + "..." if len(gpu_info) > 30 else gpu_info, line 565
GpuInfoText(gpu_info) ==
    IF Len(gpu_info) > 30 THEN SubSeq(gpu_info, 1, 30) \o <<".", ".", ".">> ELSE gpu_info

----------------------------------------------------------------------------
(* The hardware backend's device tree *)

\* lines 453-455
GpuTypes == {"GpuNvidia", "GpuAmd", "GpuIntel"}

Sensor(name, type, value) == [Name |-> name, SensorType |-> type, Value |-> value]
Device(name, type, sensors) == [Name |-> name, HardwareType |-> type, Sensors |-> sensors]

NameGpuCore   == <<"G", "P", "U", " ", "C", "o", "r", "e">>
NameFanLoad   == <<"F", "a", "n", " ", "S", "p", "e", "e", "d", " ", "L", "o", "a", "d">>
NameD3D       == <<"D", "3", "D", " ", "3", "D">>
NameGpuMemory == <<"G", "P", "U", " ", "M", "e", "m", "o", "r", "y">>
NameBus       == <<"B", "u", "s", " ", "I", "n", "t", "e", "r", "f", "a", "c", "e">>
NameVideo     == <<"V", "i", "d", "e", "o", " ", "E", "n", "g", "i", "n", "e">>

NameNvidia == <<"N", "V", "I", "D", "I", "A", " ", "G", "e", "F", "o", "r", "c", "e", " ",
                "R", "T", "X", " ", "3", "0", "6", "0">>
NameAmd    == <<"A", "M", "D", " ", "R", "a", "d", "e", "o", "n", " ", "R", "X", " ",
                "6", "7", "0", "0", " ", "X", "T", " ", "G", "r", "a", "p", "h", "i", "c", "s",
                " ", "A", "d", "a", "p", "t", "e", "r">>
NameIntel  == <<"I", "n", "t", "e", "l", " ", "U", "H", "D", " ", "G", "r", "a", "p", "h",
                "i", "c", "s", " ", "6", "3", "0">>
NameCpu    == <<"A", "M", "D", " ", "R", "y", "z", "e", "n", " ", "5", " ", "5", "6", "0", "0", "X">>

\* The sensors a device may report: load sensors whose names match the keyword
\* filter (in range, zero, null, above 100, below 0), load sensors whose names do
\* not match, and a sensor of another type with a matching name.
SensorPool ==
    { Sensor(NameGpuCore,   "Load",        Flt(40)),
      Sensor(NameFanLoad,   "Load",        Flt(90)),
      Sensor(NameD3D,       "Load",        Flt(150)),
      Sensor(NameGpuMemory, "Load",        Flt(-10)),
      Sensor(NameGpuMemory, "Load",        Zero),
      Sensor(NameGpuCore,   "Load",        None),
      Sensor(NameVideo,     "Load",        Q(111, 2)),
      Sensor(NameGpuCore,   "Temperature", Flt(65)) }

\* NameMatches tabulated over the sensor names that occur
SensorNames == { s.Name : s \in SensorPool } \cup {NameBus, NameGpuMemory}
KeywordNames == { name \in SensorNames : NameMatches(name) }

SensorLists == UNION { [1..n -> SensorPool] : n \in 0..MaxSensors }

\* Devices enumerated before the GPU under study: none, a CPU, a GPU that reads
\* zero, a GPU whose only load sensor reads below zero.
DevicesBefore ==
    { <<>>,
      <<Device(NameCpu, "Cpu", <<Sensor(NameGpuCore, "Load", Flt(40))>>)>>,
      <<Device(NameIntel, "GpuIntel", <<Sensor(NameGpuMemory, "Load", Zero)>>)>>,
      <<Device(NameIntel, "GpuIntel", <<Sensor(NameBus, "Load", Flt(-10))>>)>> }

HardwareTrees ==
    {<<>>} \cup
    { before \o <<Device(NameNvidia, "GpuNvidia", sensors)>> :
        before \in DevicesBefore, sensors \in SensorLists }

\* A few trees for the specifications that study the rest of the tick.
FewHardwareTrees ==
    { <<>>,
      <<Device(NameCpu, "Cpu", <<>>)>>,
      <<Device(NameNvidia, "GpuNvidia", <<Sensor(NameGpuCore, "Load", Flt(40)),
                                          Sensor(NameFanLoad, "Load", Flt(90))>>)>>,
      <<Device(NameAmd, "GpuAmd", <<Sensor(NameGpuMemory, "Load", Zero)>>)>> }

\* Where the backend throws during one get_gpu_usage call: nowhere, on reading
\* computer.Hardware, <<k, 0>> in hw.Update() of device k, <<k, j>> on the access
\* to sensor j of GPU device k in the loop of line 461.
NoFail   == <<0, 0>>
EnumFail == <<0, 1>>
FailPoints(hw) ==
    {NoFail, EnumFail}
    \cup { <<k, 0>> : k \in 1..Len(hw) }
    \cup { <<k, j>> \in (1..Len(hw)) \X (1..MaxSensors) :
             hw[k].HardwareType \in GpuTypes /\ j <= Len(hw[k].Sensors) }

----------------------------------------------------------------------------
(* get_gpu_usage, lines 442-498 *)

\* lines 468-469 (and 479-480)
IsLoadReading(sensor) == sensor.SensorType = "Load" /\ sensor.Value # None

\* a first-match variant of the scan
RECURSIVE KeywordScanFirstMatch(_, _)
KeywordScanFirstMatch(gpu_percent, sensors) ==
    IF sensors = <<>> THEN gpu_percent
    ELSE LET sensor == Head(sensors)
         IN  IF IsLoadReading(sensor) /\ sensor.Name \in KeywordNames
             THEN sensor.Value
             ELSE KeywordScanFirstMatch(gpu_percent, Tail(sensors))

\* lines 461-474: the scan of one device's sensors, gpu_percent carried in
RECURSIVE KeywordScan(_, _)
KeywordScan(gpu_percent, sensors) ==
    IF sensors = <<>> THEN gpu_percent
    ELSE LET sensor == Head(sensors)
         IN  IF IsLoadReading(sensor) /\ sensor.Name \in KeywordNames
             THEN KeywordScan(QMax(gpu_percent, sensor.Value), Tail(sensors))
             ELSE KeywordScan(gpu_percent, Tail(sensors))

\* lines 478-483: the value of the first Load sensor, gpu_percent if there is none
RECURSIVE FirstLoadValue(_, _)
FirstLoadValue(gpu_percent, sensors) ==
    IF sensors = <<>> THEN gpu_percent
    ELSE IF IsLoadReading(Head(sensors)) THEN Head(sensors).Value
    ELSE FirstLoadValue(gpu_percent, Tail(sensors))

\* lines 477-483: tried only when the scan left gpu_percent at 0.0
FirstLoadFallback(gpu_percent, sensors) ==
    IF gpu_percent = Zero THEN FirstLoadValue(gpu_percent, sensors) ELSE gpu_percent

\* line 485: if gpu_percent > 0: break
FoundWorkingGpu(gpu_percent) == QLt(Zero, gpu_percent)

\* a handler that leaves gpu_percent as the exception found it
GpuErrorKeepsValue(gpu_percent, gpu_name, scan) ==
    [gpu_percent |-> gpu_percent, gpu_name |-> gpu_name, threw |-> TRUE, scan |-> scan]

\* lines 488-490: the handler of an exception thrown by the backend, given the
\* locals as the exception found them
GpuErrorResult(gpu_percent, gpu_name, scan) ==
    [gpu_percent |-> Zero, gpu_name |-> gpu_name, threw |-> TRUE, scan |-> scan]

\* lines 449-486: the loop over computer.Hardware from device i on.  scan records,
\* per GPU device whose sensors were all read, the running value on entry, after
\* the keyword scan and after the first-load fallback.
RECURSIVE HardwareLoop(_, _, _, _, _, _)
HardwareLoop(hw, i, gpu_percent, gpu_name, fail, scan) ==
    IF i > Len(hw)
    THEN [gpu_percent |-> gpu_percent, gpu_name |-> gpu_name, threw |-> FALSE, scan |-> scan]
    ELSE IF fail = <<i, 0>>
    THEN GpuErrorResult(gpu_percent, gpu_name, scan)
    ELSE IF hw[i].HardwareType \notin GpuTypes
    THEN HardwareLoop(hw, i + 1, gpu_percent, gpu_name, fail, scan)
    ELSE IF fail[1] = i
    THEN GpuErrorResult(KeywordScan(gpu_percent, SubSeq(hw[i].Sensors, 1, fail[2] - 1)),
                        hw[i].Name, scan)
    ELSE LET candidate == KeywordScan(gpu_percent, hw[i].Sensors)
             reading   == FirstLoadFallback(candidate, hw[i].Sensors)
             seen      == Append(scan, [device |-> i, entry |-> gpu_percent,
                                        candidate |-> candidate, reading |-> reading])
         IN  IF FoundWorkingGpu(reading)
             THEN [gpu_percent |-> reading, gpu_name |-> hw[i].Name,
                   threw |-> FALSE, scan |-> seen]
             ELSE HardwareLoop(hw, i + 1, reading, hw[i].Name, fail, seen)

\* line 447: if LHM_AVAILABLE and computer
BackendConsulted == LHM_AVAILABLE /\ computer # "None"

\* lines 444-490: the part of get_gpu_usage that talks to the backend
BackendReading(fail) ==
    IF ~BackendConsulted
    THEN [gpu_percent |-> Zero, gpu_name |-> IntegratedGraphics, threw |-> FALSE, scan |-> <<>>]
    ELSE IF fail = EnumFail
    THEN GpuErrorResult(Zero, IntegratedGraphics, <<>>)
    ELSE HardwareLoop(hardware, 1, Zero, IntegratedGraphics, fail, <<>>)

\* line 496: min(cpu_percent * 0.3, 100.0)
CpuHeuristic(cpu_percent) == QMin(QMul(cpu_percent, Q(3, 10)), Hundred)

\* line 493: if gpu_percent == 0.0
NeedsCpuFallback(reading) == reading.gpu_percent = Zero

----------------------------------------------------------------------------
(* The network rate, lines 543-554 *)

Counters(sent, recv) == [bytes_sent |-> sent, bytes_recv |-> recv]

\* 10 * 1024 * 1024 bytes per second shows as 100%, line 552
RefBytesPerSec == 10 * 1024 * 1024

\* a rate that leaves the received bytes out
NetworkRateSentOnly(prev_net, prev_time, net_current, current_time) ==
    LET time_diff == current_time - prev_time
    IN  IF time_diff > 0
        THEN LET total ==
                     QDiv(Flt(net_current.bytes_sent - prev_net.bytes_sent), Flt(time_diff))
             IN  [time_diff |-> time_diff,
                  total_bytes_per_sec |-> total,
                  net_percent |-> QMin(QMul(QDiv(total, Flt(RefBytesPerSec)), Hundred), Hundred)]
        ELSE [time_diff |-> time_diff, total_bytes_per_sec |-> Zero, net_percent |-> Zero]

NetworkRate(prev_net, prev_time, net_current, current_time) ==
    LET time_diff == current_time - prev_time
    IN  IF time_diff > 0
        THEN LET bytes_sent_per_sec ==
                     QDiv(Flt(net_current.bytes_sent - prev_net.bytes_sent), Flt(time_diff))
                 bytes_recv_per_sec ==
                     QDiv(Flt(net_current.bytes_recv - prev_net.bytes_recv), Flt(time_diff))
                 total == QAdd(bytes_sent_per_sec, bytes_recv_per_sec)
             IN  [time_diff |-> time_diff,
                  total_bytes_per_sec |-> total,
                  net_percent |-> QMin(QMul(QDiv(total, Flt(RefBytesPerSec)), Hundred), Hundred)]
        ELSE [time_diff |-> time_diff, total_bytes_per_sec |-> Zero, net_percent |-> Zero]

\* a store that keeps the old timestamp
StoredNetStateStale(net_current, current_time) ==
    [last_net |-> net_current, last_time |-> last_time]

\* lines 556-557: what the tick stores for the next one
StoredNetState(net_current, current_time) ==
    [last_net |-> net_current, last_time |-> current_time]

----------------------------------------------------------------------------
(* CircularMeter and MiniStatusWidget *)

MeterNames == {"cpu", "ram", "gpu", "net"}

\* a set_value that stores its argument as given
SetValueUnclamped(percent, info) == [value |-> percent, info |-> info]

\* CircularMeter.set_value, lines 85-88
SetValue(percent, info) ==
    [value |-> QMax(Zero, QMin(Hundred, percent)), info |-> info]

\* CircularMeter.__init__, lines 67-68
NewMeter == [value |-> Zero, info |-> <<>>]

\* MiniStatusWidget.update_status, lines 222-225: the three numbers of the text
UpdateStatus(cpu_percent, ram_percent, gpu_percent) ==
    <<Trunc(cpu_percent), Trunc(ram_percent), Trunc(gpu_percent)>>

----------------------------------------------------------------------------
(* update_stats, lines 527-576 *)

\* the sources read by a tick, in the order the tick reads them
ReadOrder == <<"cpu", "mem", "gpu", "net", "freq">>

IdleTick ==
    [outcome |-> "idle",          \* "done", or the source whose read raised
     cpu_percent |-> None, ram_percent |-> None,
     consulted |-> FALSE, threw |-> FALSE, scan |-> <<>>, cpu_fallback |-> None,
     gpu_percent |-> None, gpu_info |-> <<>>,
     current_time |-> 0, net_current |-> Counters(0, 0),
     prev_net |-> Counters(0, 0), prev_time |-> 0,
     time_diff |-> 0, total_bytes_per_sec |-> None, net_percent |-> None,
     delivered |-> {}]

\* the except clause of lines 575-576: nothing the tick had not yet assigned changes
Aborted(source, locals) ==
    /\ tick' = [locals EXCEPT !.outcome = source]
    /\ UNCHANGED <<meters, mini_status, system_info>>

\* get_gpu_usage as update_stats calls it (line 538): the backend part, then the
\* fallback of lines 493-496 with its own psutil.cpu_percent() read cpu_again
GetGpuUsage(fail, cpu_again) ==
    LET reading == BackendReading(fail)
    IN  IF NeedsCpuFallback(reading)
        THEN [gpu_percent |-> CpuHeuristic(cpu_again), gpu_name |-> reading.gpu_name,
              threw |-> reading.threw, scan |-> reading.scan, cpu_fallback |-> cpu_again]
        ELSE [gpu_percent |-> reading.gpu_percent, gpu_name |-> reading.gpu_name,
              threw |-> reading.threw, scan |-> reading.scan, cpu_fallback |-> None]

\* lines 563-573: the sinks of a tick that read every source
Deliver(cpu, mem_percent, gpu, rate, freq, sysinfo_ok) ==
    /\ meters' =
          [cpu |-> SetValue(cpu, IF freq = None THEN None ELSE QDiv(freq, Flt(1000))),
           ram |-> SetValue(mem_percent, <<>>),
           gpu |-> SetValue(gpu.gpu_percent, GpuInfoText(gpu.gpu_name)),
           net |-> SetValue(rate.net_percent, rate.total_bytes_per_sec)]
    /\ mini_status' =
          IF mini_visible
          THEN UpdateStatus(cpu, mem_percent, gpu.gpu_percent)
          ELSE mini_status
    /\ system_info' = IF sysinfo_ok THEN "info" ELSE "error"

UpdateStats(cpu, mem_percent, fail, cpu_again, now, net, freq, raises, sysinfo_ok) ==
    /\ pc = "running"
    /\ UNCHANGED startup
    /\ UNCHANGED <<pc, exit_code, LHM_AVAILABLE, computer, opens, closes, hardware,
                   mini_visible, window_visible>>
    /\ IF raises = "cpu"
       THEN Aborted("cpu", IdleTick) /\ UNCHANGED <<last_net, last_time>>
       ELSE IF raises = "mem"
       THEN /\ Aborted("mem", [IdleTick EXCEPT !.cpu_percent = cpu])
            /\ UNCHANGED <<last_net, last_time>>
       ELSE
       \E gpu \in {GetGpuUsage(fail, cpu_again)} :
       \E rate \in {NetworkRate(last_net, last_time, net, now)} :
       \E stored \in {StoredNetState(net, now)} :
       LET t3 == [IdleTick EXCEPT !.cpu_percent = cpu, !.ram_percent = mem_percent,
                                  !.consulted = BackendConsulted,
                                  !.threw = gpu.threw, !.scan = gpu.scan]
           t4 == [t3 EXCEPT !.cpu_fallback = gpu.cpu_fallback,
                            !.gpu_percent = gpu.gpu_percent, !.gpu_info = gpu.gpu_name,
                            !.current_time = now]
           t5 == [t4 EXCEPT !.net_current = net,
                            !.prev_net = last_net, !.prev_time = last_time,
                            !.time_diff = rate.time_diff,
                            !.total_bytes_per_sec = rate.total_bytes_per_sec,
                            !.net_percent = rate.net_percent]
       IN
       IF gpu.cpu_fallback # None /\ raises = "gpu"
       THEN Aborted("gpu", t3) /\ UNCHANGED <<last_net, last_time>>
       ELSE IF raises = "net"
       THEN Aborted("net", t4) /\ UNCHANGED <<last_net, last_time>>
       ELSE /\ last_net' = stored.last_net
            /\ last_time' = stored.last_time
            /\ IF raises = "freq"
               THEN Aborted("freq", t5)
               ELSE /\ Deliver(cpu, mem_percent, gpu, rate, freq, sysinfo_ok)
                    /\ tick' = [t5 EXCEPT !.outcome = "done", !.delivered = MeterNames]

\* enter_mini_mode, lines 430-434
EnterMiniMode ==
    /\ pc = "running" /\ window_visible
    /\ window_visible' = FALSE
    /\ mini_visible' = TRUE
    /\ UNCHANGED startup
    /\ UNCHANGED <<pc, exit_code, LHM_AVAILABLE, computer, opens, closes, hardware,
                   last_net, last_time, meters, mini_status, system_info, tick>>

\* exit_mini_mode, lines 436-441
ExitMiniMode ==
    /\ pc = "running" /\ mini_visible
    /\ mini_visible' = FALSE
    /\ window_visible' = TRUE
    /\ UNCHANGED startup
    /\ UNCHANGED <<pc, exit_code, LHM_AVAILABLE, computer, opens, closes, hardware,
                   last_net, last_time, meters, mini_status, system_info, tick>>

----------------------------------------------------------------------------
(* The start of the process: the backend set-up of lines 17-58 and the try  *)
(* block of main, with MonitorWindow.__init__ and setup_ui in line          *)

\* dll_candidates, lines 18-22, by position
DllCandidates == 1..3

\* the first candidate that exists, 0 (None) when none does: lines 24-28
FirstExisting(exists) ==
    IF \E i \in DllCandidates : exists[i]
    THEN CHOOSE i \in DllCandidates : exists[i] /\ \A j \in DllCandidates : j < i => ~exists[j]
    ELSE 0

\* the properties lines 48-52 set, in that order
SensorGroups == <<"IsCpuEnabled", "IsMemoryEnabled", "IsGpuEnabled",
                  "IsMotherboardEnabled", "IsStorageEnabled">>

AllGroups == { SensorGroups[k] : k \in 1..Len(SensorGroups) }

\* what the body of class MonitorWindow defines, lines 236-341; apply_theme,
\* center_window, toggle_theme, enter_mini_mode, exit_mini_mode, update_stats and
\* closeEvent are names of the module (lines 343-586), not of the class
MonitorWindowMethods == {"__init__", "setup_ui"}

\* the methods of the base class QWidget that __init__ calls on self
QWidgetMethods == {"setWindowTitle", "resize", "setWindowFlags"}

\* the names an attribute reference on a MonitorWindow object finds in its class
ClassAttrs == MonitorWindowMethods \cup QWidgetMethods

\* one statement group: the attributes of self it reads, the attributes it
\* assigns, whether it calls into the toolkit or the OS, and what else it does
Stmt(from, to, reads, sets, calls, effect) ==
    [lines |-> <<from, to>>, reads |-> reads, sets |-> sets, calls |-> calls,
     effect |-> effect]

\* lines 598-605 in execution order
MainTry ==
    << Stmt(238, 243, {"setWindowTitle"}, {"full_w", "full_h"}, TRUE, "none"),
       Stmt(245, 246, {"resize", "full_w", "full_h", "setWindowFlags"}, {}, TRUE, "none"),
       Stmt(249, 249, {}, {"is_dark_mode"}, FALSE, "none"),
       Stmt(252, 283, {"setup_ui"}, {}, TRUE, "none"),
       Stmt(286, 288, {}, {"title_label"}, TRUE, "none"),
       Stmt(291, 293, {}, {"theme_btn"}, TRUE, "none"),
       Stmt(294, 294, {"theme_btn", "toggle_theme"}, {}, TRUE, "none"),
       Stmt(297, 300, {}, {"mini_btn"}, TRUE, "none"),
       Stmt(301, 301, {"mini_btn", "enter_mini_mode"}, {}, TRUE, "none"),
       Stmt(303, 311, {"theme_btn", "mini_btn", "title_label"}, {}, TRUE, "none"),
       Stmt(314, 328, {}, {"cpu_meter", "ram_meter", "gpu_meter", "net_meter"}, TRUE, "none"),
       Stmt(331, 335, {}, {"system_info"}, TRUE, "none"),
       Stmt(253, 253, {"apply_theme"}, {}, TRUE, "none"),
       Stmt(256, 256, {}, {"mini_widget"}, TRUE, "none"),
       Stmt(257, 257, {"mini_widget", "exit_mini_mode"}, {}, TRUE, "none"),
       Stmt(260, 260, {}, {"timer"}, TRUE, "none"),
       Stmt(261, 262, {"timer", "update_stats"}, {}, TRUE, "timer"),
       Stmt(265, 266, {}, {"last_net", "last_time"}, TRUE, "net"),
       Stmt(269, 269, {"center_window"}, {}, TRUE, "none"),
       Stmt(599, 599, {}, {}, TRUE, "show"),
       Stmt(601, 605, {}, {}, TRUE, "exec") >>

\* the attributes a completed __init__ would have assigned
ConstructedAttrs == UNION { MainTry[k].sets : k \in 1..Len(MainTry) }

----------------------------------------------------------------------------
(* The object update_stats is applied to, and the readings it is given *)

CpuReadings == {Zero, Flt(50), Flt(100)}
NetReadings == { Counters(s, r) : s \in {1000, 2000, 10486760}, r \in {2000, 3000} }
Times == 0..MaxTime
Raisers == {"none"} \cup { ReadOrder[k] : k \in 1..Len(ReadOrder) }

\* self after lines 237-269, with the backend as lines 29-58 left it
InitObject(availability, trees, nets, times, mini) ==
    /\ pc = "running"
    /\ exit_code = -1
    /\ LHM_AVAILABLE \in availability
    /\ computer = IF LHM_AVAILABLE THEN "Computer" ELSE "None"
    /\ opens = IF LHM_AVAILABLE THEN 1 ELSE 0
    /\ closes = 0
    /\ hardware \in IF LHM_AVAILABLE THEN trees ELSE {<<>>}
    /\ last_net \in nets
    /\ last_time \in times
    /\ meters = [m \in MeterNames |-> NewMeter]
    /\ mini_visible \in mini
    /\ window_visible = ~mini_visible
    /\ mini_status = <<0, 0, 0>>
    /\ system_info = "loading"
    /\ tick = IdleTick
    /\ LIBRE_DLL = IF LHM_AVAILABLE THEN 1 ELSE 0
    /\ enabled = IF LHM_AVAILABLE THEN AllGroups ELSE {}
    /\ attrs = ConstructedAttrs
    /\ stmt = Len(MainTry) + 1
    /\ error = "none"

(* Ticks whose GPU part is under study: any device tree, any failure point *)
InitGpu == InitObject({TRUE}, HardwareTrees, {Counters(1000, 2000)}, {0}, {TRUE})

TickGpu ==
    \E fail \in FailPoints(hardware), cpu_again \in {Zero, Flt(100)} :
        UpdateStats(Flt(50), Q(111, 2), fail, cpu_again, 1, Counters(2000, 2000),
                    Flt(2400), "none", TRUE)

NextGpu == TickGpu

SpecGpu == InitGpu /\ [][NextGpu]_vars

(* Ticks whose network part is under study: any counters, any clock *)
InitNet == InitObject({FALSE}, {<<>>}, NetReadings, Times, {FALSE})

TickNet ==
    \E now \in Times, net \in NetReadings :
        UpdateStats(Flt(50), Q(111, 2), NoFail, Flt(50), now, net, Flt(2400), "none", TRUE)

NextNet == TickNet

SpecNet == InitNet /\ [][NextNet]_vars

\* closeEvent, lines 578-586, and the return of app.exec_() into sys.exit, line 605
CloseEvent ==
    /\ pc = "running" /\ window_visible
    /\ mini_visible' = FALSE
    /\ closes' = IF BackendConsulted THEN closes + 1 ELSE closes
    /\ window_visible' = FALSE
    /\ pc' = "exited"
    /\ exit_code' = 0
    /\ UNCHANGED startup
    /\ UNCHANGED <<LHM_AVAILABLE, computer, opens, hardware, last_net, last_time,
                   meters, mini_status, system_info, tick>>

(* Ticks in which any one read may raise, with and without the backend *)
InitTick == InitObject(BOOLEAN, FewHardwareTrees, {Counters(1000, 2000)}, {0}, {FALSE})

TickAny ==
    \E cpu_again \in {Zero, Flt(50)}, fail \in FailPoints(hardware),
       freq \in {None, Flt(2400)}, raises \in Raisers :
        UpdateStats(Flt(50), Q(111, 2), fail, cpu_again, 1, Counters(2000, 2000),
                    freq, raises, TRUE)

NextTick == TickAny \/ EnterMiniMode \/ ExitMiniMode \/ CloseEvent

SpecTick == InitTick /\ [][NextTick]_vars

----------------------------------------------------------------------------
(* The process from the import of the module on *)

Init ==
    /\ pc = "import"
    /\ exit_code = -1
    /\ LHM_AVAILABLE = FALSE
    /\ computer = "None"
    /\ opens = 0
    /\ closes = 0
    /\ hardware = <<>>
    /\ last_net = Counters(0, 0)
    /\ last_time = 0
    /\ meters = [m \in MeterNames |-> NewMeter]
    /\ mini_visible = FALSE
    /\ window_visible = FALSE
    /\ mini_status = <<0, 0, 0>>
    /\ system_info = "loading"
    /\ tick = IdleTick
    /\ LIBRE_DLL = 0
    /\ enabled = {}
    /\ attrs = {}
    /\ stmt = 0
    /\ error = "none"

\* what no statement before the event loop touches
window_state == <<closes, meters, mini_visible, mini_status, system_info, tick>>

\* lines 18-28: LIBRE_DLL is the first candidate path that exists
DllSearch ==
    /\ pc = "import"
    /\ \E exists \in [DllCandidates -> BOOLEAN] : LIBRE_DLL' = FirstExisting(exists)
    /\ pc' = "load"
    /\ UNCHANGED <<exit_code, LHM_AVAILABLE, computer, opens, hardware, last_net, last_time,
                   window_visible, enabled, attrs, stmt, error>>
    /\ UNCHANGED window_state

\* lines 29-41: import clr, AddReference and the import of Hardware, which may raise
LoadDll ==
    /\ pc = "load"
    /\ \E load_ok \in (IF LIBRE_DLL # 0 THEN BOOLEAN ELSE {FALSE}) : LHM_AVAILABLE' = load_ok
    /\ pc' = "computer"
    /\ UNCHANGED <<exit_code, computer, opens, hardware, last_net, last_time,
                   window_visible, LIBRE_DLL, enabled, attrs, stmt, error>>
    /\ UNCHANGED window_state

\* lines 44-47: computer = None, then Hardware.Computer() when the library loaded
NewComputer ==
    /\ pc = "computer"
    /\ \E raises \in (IF LHM_AVAILABLE THEN BOOLEAN ELSE {FALSE}) :
          IF ~LHM_AVAILABLE THEN pc' = "main" /\ computer' = "None"
          ELSE IF raises THEN pc' = "computer_except" /\ computer' = "None"
          ELSE pc' = "enable" /\ computer' = "Computer"
    /\ UNCHANGED <<exit_code, LHM_AVAILABLE, opens, hardware, last_net, last_time,
                   window_visible, LIBRE_DLL, enabled, attrs, stmt, error>>
    /\ UNCHANGED window_state

\* lines 48-52: one assignment of an Is...Enabled property, which may raise
EnableGroup ==
    /\ pc = "enable"
    /\ \E raises \in BOOLEAN :
          IF raises THEN pc' = "computer_except" /\ enabled' = enabled
          ELSE /\ enabled' = enabled \cup {SensorGroups[Cardinality(enabled) + 1]}
               /\ pc' = IF enabled' = AllGroups THEN "open" ELSE "enable"
    /\ UNCHANGED <<exit_code, LHM_AVAILABLE, computer, opens, hardware, last_net, last_time,
                   window_visible, LIBRE_DLL, attrs, stmt, error>>
    /\ UNCHANGED window_state

\* lines 53-54: computer.Open(); a call that raises has not opened the session
OpenSession ==
    /\ pc = "open"
    /\ \E raises \in BOOLEAN, tree \in FewHardwareTrees :
          IF raises THEN pc' = "computer_except" /\ UNCHANGED <<opens, hardware>>
          ELSE pc' = "main" /\ opens' = opens + 1 /\ hardware' = tree
    /\ UNCHANGED <<exit_code, LHM_AVAILABLE, computer, last_net, last_time,
                   window_visible, LIBRE_DLL, enabled, attrs, stmt, error>>
    /\ UNCHANGED window_state

\* lines 55-58: the handler drops the Computer object and the capability
ComputerExcept ==
    /\ pc = "computer_except"
    /\ computer' = "None"
    /\ LHM_AVAILABLE' = FALSE
    /\ enabled' = {}
    /\ pc' = "main"
    /\ UNCHANGED <<exit_code, opens, hardware, last_net, last_time,
                   window_visible, LIBRE_DLL, attrs, stmt, error>>
    /\ UNCHANGED window_state

\* lines 17-58, the module-level statements that run at import
ModuleInit == DllSearch \/ LoadDll \/ NewComputer \/ EnableGroup \/ OpenSession \/ ComputerExcept

\* lines 591-595: QApplication(sys.argv) and its two setters, outside the try
\* block: an exception here is not caught and ends the process with status 1
CreateApp ==
    /\ pc = "main"
    /\ \E call_fails \in BOOLEAN :
          IF call_fails
          THEN pc' = "exited" /\ exit_code' = 1 /\ error' = "call_failed" /\ stmt' = stmt
          ELSE pc' = "try" /\ stmt' = 1 /\ UNCHANGED <<exit_code, error>>
    /\ UNCHANGED <<LHM_AVAILABLE, computer, opens, hardware, last_net, last_time,
                   window_visible, LIBRE_DLL, enabled, attrs>>
    /\ UNCHANGED window_state

\* an attribute reference self.name: found in the instance or in its class
HasAttr(name) == name \in attrs \cup ClassAttrs

\* lines 598-605: the next statement group of the try block.  A reference to
\* an attribute self does not have raises AttributeError before the call it is
\* an argument of is made; a call into the toolkit or the OS may raise.
MainTryStep ==
    /\ pc = "try"
    /\ \E s \in {MainTry[stmt]} :
       \E call_fails \in (IF s.calls THEN BOOLEAN ELSE {FALSE}) :
       \E reading \in (IF s.effect = "net"
                       THEN { StoredNetState(net, now) : net \in NetReadings, now \in Times }
                       ELSE { [last_net |-> last_net, last_time |-> last_time] }) :
          IF \E name \in s.reads : ~HasAttr(name)
          THEN /\ pc' = "except" /\ error' = "AttributeError"
               /\ UNCHANGED <<attrs, stmt, last_net, last_time, window_visible>>
          ELSE IF call_fails
          THEN /\ pc' = "except" /\ error' = "call_failed"
               /\ UNCHANGED <<attrs, stmt, last_net, last_time, window_visible>>
          ELSE /\ attrs' = attrs \cup s.sets
               /\ stmt' = stmt + 1
               /\ last_net' = reading.last_net
               /\ last_time' = reading.last_time
               /\ window_visible' = (window_visible \/ s.effect = "show")
               /\ pc' = IF s.effect = "exec" THEN "running" ELSE "try"
               /\ error' = error
    /\ UNCHANGED <<exit_code, LHM_AVAILABLE, computer, opens, hardware, LIBRE_DLL, enabled>>
    /\ UNCHANGED window_state

\* lines 607-609: the handler of main prints the exception and calls sys.exit(1)
MainExcept ==
    /\ pc = "except"
    /\ pc' = "exited"
    /\ exit_code' = 1
    /\ UNCHANGED <<LHM_AVAILABLE, computer, opens, hardware, last_net, last_time,
                   window_visible, LIBRE_DLL, enabled, attrs, stmt, error>>
    /\ UNCHANGED window_state

\* main, lines 589-609
Main == CreateApp \/ MainTryStep \/ MainExcept

Next == ModuleInit \/ Main

Spec == Init /\ [][Next]_vars

----------------------------------------------------------------------------
(* Properties of get_gpu_usage, checked under SpecGpu *)

Done == tick.outcome = "done"

\* the greatest element of a non-empty set of floats
QMaxOf(S) == CHOOSE x \in S : \A y \in S : QLe(y, x)

\* the values of the load-type sensors of a device whose names pass the keyword filter
MatchingValues(device) ==
    { device.Sensors[k].Value : k \in { j \in 1..Len(device.Sensors) :
          /\ IsLoadReading(device.Sensors[j])
          /\ device.Sensors[j].Name \in KeywordNames } }

\* the load-type sensors of a device that carry a value, in reported order
LoadIndices(device) == { j \in 1..Len(device.Sensors) : IsLoadReading(device.Sensors[j]) }
FirstLoadIndex(device) == CHOOSE j \in LoadIndices(device) : \A k \in LoadIndices(device) : j <= k

ScanEntries == { tick.scan[k] : k \in 1..Len(tick.scan) }

\* C6 as stated: on every GPU device read, the candidate after the keyword scan
\* is the maximum value over the matching load sensors.
C6_CandidateIsMaxOfMatching ==
    \A e \in ScanEntries :
        MatchingValues(hardware[e.device]) # {}
            => e.candidate = QMaxOf(MatchingValues(hardware[e.device]))

\* C6 (amended): on every GPU device read, the candidate after the keyword scan is
\* the maximum over the matching load sensors' values together with the running
\* value the scan starts from, whatever the order of the sensors; that running
\* value is 0.0 on the first GPU device read and never positive on a later one.
C6_CandidateIsMaxWithRunningValue ==
    /\ \A e \in ScanEntries :
          /\ e.candidate = QMaxOf(MatchingValues(hardware[e.device]) \cup {e.entry})
          /\ QLe(e.entry, Zero)
    /\ tick.scan # <<>> => tick.scan[1].entry = Zero

\* C6 witness: a tick read a device that reports "GPU Core" = 40 before
\* "Fan Speed Load" = 90 and took 90.
C6_Witness ==
    /\ Done
    /\ \E e \in ScanEntries :
          /\ hardware[e.device].Sensors =
                <<Sensor(NameGpuCore, "Load", Flt(40)), Sensor(NameFanLoad, "Load", Flt(90))>>
          /\ e.candidate = Flt(90)

\* C7 as stated: on every GPU device read where no load sensor passes the keyword
\* filter and some load sensor carries a value, the reading is the value of the
\* first such sensor in reported order.
C7_FirstLoadSensorWhenNoMatch ==
    \A e \in ScanEntries :
        LET device == hardware[e.device]
        IN  (MatchingValues(device) = {} /\ LoadIndices(device) # {})
                => e.reading = device.Sensors[FirstLoadIndex(device)].Value

\* C9 as stated: the GPU percent get_gpu_usage returns lies in [0, 100].
C9_GpuPercentInRange ==
    tick.outcome \in {"net", "freq", "done"}
        => QLe(Zero, tick.gpu_percent) /\ QLe(tick.gpu_percent, Hundred)

\* max(0, min(100, x)) spelled out by cases
Clamped(x) == IF QLt(x, Zero) THEN Zero ELSE IF QLt(Hundred, x) THEN Hundred ELSE x

\* C10: every meter's stored value lies in [0, 100], and after a tick that fed the
\* meters each value is its input clamped: -10, 0, 55.5, 150 are stored as
\* 0, 0, 55.5, 100.
C10_MeterValueClamped ==
    /\ \A m \in MeterNames : QLe(Zero, meters[m].value) /\ QLe(meters[m].value, Hundred)
    /\ Done =>
          /\ meters["cpu"].value = Clamped(tick.cpu_percent)
          /\ meters["ram"].value = Clamped(tick.ram_percent)
          /\ meters["gpu"].value = Clamped(tick.gpu_percent)
          /\ meters["net"].value = Clamped(tick.net_percent)
          /\ tick.gpu_percent = Flt(-10)  => meters["gpu"].value = Zero
          /\ tick.gpu_percent = Zero      => meters["gpu"].value = Zero
          /\ tick.gpu_percent = Q(111, 2) => meters["gpu"].value = Q(111, 2)
          /\ tick.gpu_percent = Flt(150)  => meters["gpu"].value = Hundred

\* C10 witness: set_value was given 150 and stored 100.
C10_Witness == Done /\ tick.gpu_percent = Flt(150) /\ meters["gpu"].value = Hundred

----------------------------------------------------------------------------
(* Properties of the network rate, checked under SpecNet *)

\* what a counter adds to the rate if a decrease counts as 0
NonNegative(delta) == IF delta < 0 THEN 0 ELSE delta

\* C2 as stated: with dt > 0 a counter that decreased contributes 0, so the rate
\* and the network percent of a tick are never negative.
C2_RateNeverNegative ==
    (Done /\ tick.time_diff > 0) =>
        /\ QLe(Zero, tick.total_bytes_per_sec)
        /\ QLe(Zero, tick.net_percent)
        /\ tick.total_bytes_per_sec =
              Q(NonNegative(tick.net_current.bytes_sent - tick.prev_net.bytes_sent)
                + NonNegative(tick.net_current.bytes_recv - tick.prev_net.bytes_recv),
                tick.time_diff)

C3_Step ==
    tick'.outcome = "done" =>
        /\ tick'.time_diff = tick'.current_time - last_time
        /\ tick'.time_diff <= 0 =>
              /\ tick'.total_bytes_per_sec = Zero
              /\ tick'.net_percent = Zero
              /\ meters'["net"].value = Zero
              /\ last_net' = tick'.net_current
              /\ last_time' = tick'.current_time

\* C3: a tick whose elapsed time since the stored timestamp is <= 0 reports rate 0
\* and percent 0 and still replaces last_net and last_time by what it read; every
\* tick measures its elapsed time from the timestamp its predecessor stored.
C3_ClockAnomaly == [][C3_Step]_vars

\* C3 witness: a tick read a clock behind the stored timestamp and other counters,
\* reported 0 and stored what it read.
C3_Witness ==
    /\ Done
    /\ tick.time_diff < 0
    /\ tick.net_current # tick.prev_net
    /\ tick.total_bytes_per_sec = Zero
    /\ last_net = tick.net_current /\ last_time = tick.current_time

C4_Step ==
    LET dt   == tick'.current_time - last_time
        sent == tick'.net_current.bytes_sent - last_net.bytes_sent
        recv == tick'.net_current.bytes_recv - last_net.bytes_recv
        rate == tick'.total_bytes_per_sec
    IN  (tick'.outcome = "done" /\ dt > 0 /\ sent >= 0 /\ recv >= 0) =>
            /\ rate = Q(sent + recv, dt)
            /\ tick'.net_percent =
                  IF sent + recv >= RefBytesPerSec * dt
                  THEN Hundred
                  ELSE Q((sent + recv) * 100, dt * RefBytesPerSec)
            /\ QLe(Flt(RefBytesPerSec), rate) => tick'.net_percent = Hundred
            /\ ( /\ last_net = Counters(1000, 2000) /\ last_time = 0
                 /\ tick'.net_current = Counters(2000, 2000) /\ tick'.current_time = 1 )
                  => rate = Flt(1000) /\ tick'.net_percent = Q(1000 * 100, RefBytesPerSec)

\* C4: with dt > 0 and counters that did not decrease, a tick's rate is
\* ((curr.sent - prev.sent) + (curr.recv - prev.recv)) / dt against the stored
\* snapshot and its percent is min(rate / (10*1024*1024) * 100, 100): 100 for
\* every rate >= 10 MiB/s, and 1000 bytes/s for (1000,2000)@0 -> (2000,2000)@1.
C4_RateFormula == [][C4_Step]_vars

\* C4 witness: the tick of the example, (1000,2000)@0 -> (2000,2000)@1.
C4_Witness ==
    /\ Done
    /\ tick.prev_net = Counters(1000, 2000) /\ tick.prev_time = 0
    /\ tick.net_current = Counters(2000, 2000) /\ tick.current_time = 1
    /\ tick.total_bytes_per_sec = Flt(1000)

----------------------------------------------------------------------------
(* Properties of the whole tick, checked under SpecTick *)

\* the meter each source feeds (the CPU frequency is the CPU meter's info text)
MeterOf(source) ==
    CASE source = "cpu"  -> {"cpu"}
      [] source = "mem"  -> {"ram"}
      [] source = "gpu"  -> {"gpu"}
      [] source = "net"  -> {"net"}
      [] source = "freq" -> {}

\* C1 as stated: a tick in which one source raises still hands the other metrics
\* to their meters.
C1_OtherMetricsDelivered ==
    tick.outcome \in { ReadOrder[k] : k \in 1..Len(ReadOrder) }
        => (MeterNames \ MeterOf(tick.outcome)) \subseteq tick.delivered

\* C5 as stated: without the backend, the tick's GPU reading is
\* (min(c * 0.3, 100), "Integrated Graphics") for the cpu_percent c of that tick,
\* 15 for c = 50.
C5_FallbackUsesTickCpu ==
    (Done /\ ~tick.consulted) =>
        /\ tick.gpu_percent = CpuHeuristic(tick.cpu_percent)
        /\ tick.gpu_info = IntegratedGraphics
        /\ tick.cpu_percent = Flt(50) => tick.gpu_percent = Flt(15)

GpuPartRan(t) == t.outcome \in {"net", "freq", "done"}

C8_Step ==
    /\ LHM_AVAILABLE' = LHM_AVAILABLE
    /\ computer' = computer
    /\ (GpuPartRan(tick') /\ tick'.threw) =>
          /\ tick'.cpu_fallback # None
          /\ tick'.gpu_percent =
                IF QLt(QMul(tick'.cpu_fallback, Q(3, 10)), Hundred)
                THEN QMul(tick'.cpu_fallback, Q(3, 10)) ELSE Hundred
    /\ (tick.threw /\ tick' # tick /\ tick'.outcome \notin {"cpu", "mem"}) => tick'.consulted

\* C8: a tick in which the backend throws reports the CPU heuristic
\* min(cpu * 0.3, 100) of the CPU reading get_gpu_usage takes, no step of the
\* running program changes LHM_AVAILABLE or computer, and the tick after a
\* throwing one consults the backend again.
C8_FailureIsolation == [][C8_Step]_vars

\* C8 witness: the backend threw in the latest tick, after a sensor had been read,
\* the tick reported the heuristic and the capability is still there.
C8_Witness ==
    /\ Done /\ tick.threw /\ tick.consulted
    /\ tick.cpu_fallback = Flt(50) /\ tick.gpu_percent = Flt(15)
    /\ tick.gpu_info = NameNvidia
    /\ LHM_AVAILABLE /\ computer = "Computer"

\* the sources whose exception ends a tick early
RaisedIn(t) == t.outcome \in { ReadOrder[k] : k \in 1..Len(ReadOrder) }

C11_Step ==
    /\ (tick' # tick /\ RaisedIn(tick')) => (last_net' = last_net /\ last_time' = last_time)
    /\ (last_net' # last_net \/ last_time' # last_time) =>
          /\ tick'.outcome = "done"
          /\ last_net' = tick'.net_current
          /\ last_time' = tick'.current_time

\* C11 as stated: last_net and last_time are changed only by a tick that
\* completes, both together and to that tick's readings; a tick in which any
\* source raises leaves both as they were.
C11_StoredStateOnlyOnSuccess == [][C11_Step]_vars

----------------------------------------------------------------------------
(* Properties of the process from its start to its exit, checked under Spec *)

\* C12 as stated: the backend session is opened at most once, never closed more
\* often than opened, and a process that has exited with the session opened has
\* closed it exactly once, whichever way it exited.
C12_SessionClosedOnExit ==
    /\ opens <= 1
    /\ closes <= opens
    /\ (pc = "exited" /\ opens = 1) => closes = 1

\* C13 as stated: unless a call into the OS or the toolkit fails, no exception
\* ends main's try block and sys.exit(1) is not reached.
C13_StartupReachesEventLoop ==
    error # "call_failed" => (error = "none" /\ pc # "except" /\ exit_code # 1)

====
